---- MODULE Spec2Model ----
(***************************************************************************)
(* Model of src/db.py: a script that enumerates the tables of a MySQL      *)
(* schema and writes, per table, its columns, foreign keys, indexes and    *)
(* creation statement to a text file.                                      *)
(*                                                                         *)
(* Text is a sequence of code points, a byte string a sequence of byte     *)
(* values; a cell delivered by the driver is a record [kind, val] with     *)
(* kind "str", "bytes" or "none".  The document is the sequence of         *)
(* f.write calls, each a record [tag, args].                               *)
(***************************************************************************)
EXTENDS Integers, Sequences, FiniteSets, TLC

(* ---------------- bounds of the model ---------------- *)
MaxTables == 2
MaxCols == 1
MaxIdxRows == 3

(* ---------------- text literals of the script ---------------- *)
TxtEmpty == <<>>
TxtNO == <<78, 79>>
TxtYES == <<89, 69, 83>>
TxtNotNull == <<78, 79, 84, 32, 78, 85, 76, 76>>
TxtNull == <<78, 85, 76, 76>>
TxtDefaultPrefix == <<68, 69, 70, 65, 85, 76, 84, 32>>
TxtUnique == <<85, 78, 73, 81, 85, 69>>
TxtCommaSpace == <<44, 32>>
TxtNone == <<78, 111, 110, 101>>

(* ---------------- driver cells ---------------- *)
Str(s) == [kind |-> "str", val |-> s]
Bytes(b) == [kind |-> "bytes", val |-> b]
None == [kind |-> "none", val |-> <<>>]

(* UTF-8 encoding of a text whose code points are below 2048 *)
RECURSIVE Utf8Encode(_)
Utf8Encode(s) ==
  IF s = <<>> THEN <<>>
  ELSE LET cp == Head(s) IN
       (IF cp < 128 THEN <<cp>>
        ELSE <<192 + (cp \div 64), 128 + (cp % 64)>>) \o Utf8Encode(Tail(s))

(* bytes.decode('utf-8'): one- and two-byte sequences; any other lead     *)
(* byte, a truncated sequence or a bad continuation byte is an error      *)
RECURSIVE Utf8Decode(_)
Utf8Decode(b) ==
  IF b = <<>> THEN [ok |-> TRUE, val |-> <<>>]
  ELSE IF b[1] < 128
       THEN LET r == Utf8Decode(Tail(b)) IN
            [ok |-> r.ok, val |-> IF r.ok THEN <<b[1]>> \o r.val ELSE <<>>]
  ELSE IF b[1] >= 194 /\ b[1] <= 223 /\ Len(b) >= 2 /\ b[2] >= 128 /\ b[2] <= 191
       THEN LET r == Utf8Decode(Tail(Tail(b))) IN
            [ok |-> r.ok,
             val |-> IF r.ok THEN <<(b[1] - 192) * 64 + (b[2] - 128)>> \o r.val
                     ELSE <<>>]
  ELSE [ok |-> FALSE, val |-> <<>>]

(* x.decode('utf-8') if isinstance(x, bytes) else x, then formatted *)
DecodeIfBytes(x) ==
  IF x.kind = "bytes" THEN Utf8Decode(x.val)
  ELSE IF x.kind = "none" THEN [ok |-> TRUE, val |-> TxtNone]
  ELSE [ok |-> TRUE, val |-> x.val]

(* x.decode('utf-8') if isinstance(x, bytes) and x else "" *)
DecodeIfNonEmptyBytes(x) ==
  IF x.kind = "bytes" /\ x.val # <<>> THEN Utf8Decode(x.val)
  ELSE [ok |-> TRUE, val |-> TxtEmpty]

(* "NOT NULL" if column[2] == "NO" else "NULL": a bytes object never      *)
(* compares equal to a str                                                *)
ColumnNull(x) ==
  IF x.kind = "str" /\ x.val = TxtNO THEN TxtNotNull ELSE TxtNull

(* f"DEFAULT {...}" if column[4] is not None else "" *)
ColumnDefault(x) ==
  IF x.kind = "none" THEN [ok |-> TRUE, val |-> TxtEmpty]
  ELSE LET d == DecodeIfBytes(x) IN
       [ok |-> d.ok, val |-> IF d.ok THEN TxtDefaultPrefix \o d.val ELSE <<>>]

(* ---------------- lines of the document ---------------- *)
Line(tag, args) == [tag |-> tag, args |-> args]
TitleLine == Line("title", <<>>)
BannerLine == Line("banner", <<>>)
DashLine == Line("dash", <<>>)
BlankLine == Line("blank", <<>>)
HeaderLine(table) == Line("header", <<table>>)
ColumnsHeading == Line("columns_heading", <<>>)
FkHeading == Line("fk_heading", <<>>)
IndexHeading == Line("index_heading", <<>>)
CreateHeading == Line("create_heading", <<>>)

(* one column row: the six cells are converted in order, the first        *)
(* failing decode raises before the line is written                       *)
ColumnLine(column) ==
  LET n == DecodeIfBytes(column[1])
      t == DecodeIfBytes(column[2])
      k == DecodeIfNonEmptyBytes(column[4])
      d == ColumnDefault(column[5])
      e == DecodeIfNonEmptyBytes(column[6])
  IN [ok |-> n.ok /\ t.ok /\ k.ok /\ d.ok /\ e.ok,
      line |-> Line("column",
                    <<n.val, t.val, ColumnNull(column[3]), k.val, d.val, e.val>>)]

(* the loop over the rows: lines written until the first failing row *)
RECURSIVE ColumnLines(_)
ColumnLines(rows) ==
  IF rows = <<>> THEN [ok |-> TRUE, lines |-> <<>>]
  ELSE LET c == ColumnLine(Head(rows)) IN
       IF ~c.ok THEN [ok |-> FALSE, lines |-> <<>>]
       ELSE LET r == ColumnLines(Tail(rows)) IN
            [ok |-> r.ok, lines |-> <<c.line>> \o r.lines]

FkLine(fk, table) ==
  LET c == DecodeIfBytes(fk[1])
      n == DecodeIfBytes(fk[2])
      rt == DecodeIfBytes(fk[3])
      rc == DecodeIfBytes(fk[4])
  IN [ok |-> c.ok /\ n.ok /\ rt.ok /\ rc.ok,
      line |-> Line("fk", <<n.val, table, c.val, rt.val, rc.val>>)]

RECURSIVE FkLines(_, _)
FkLines(rows, table) ==
  IF rows = <<>> THEN [ok |-> TRUE, lines |-> <<>>]
  ELSE LET c == FkLine(Head(rows), table) IN
       IF ~c.ok THEN [ok |-> FALSE, lines |-> <<>>]
       ELSE LET r == FkLines(Tail(rows), table) IN
            [ok |-> r.ok, lines |-> <<c.line>> \o r.lines]

(* ---------------- index grouping (index_groups) ---------------- *)
(* index_groups is a dict: its keys keep insertion order, so it is a      *)
(* sequence of [name, rows] entries                                       *)
DictAppend(d, name, row) ==
  IF \E i \in 1..Len(d) : d[i].name = name
  THEN [i \in 1..Len(d) |->
          IF d[i].name = name
          THEN [name |-> name, rows |-> Append(d[i].rows, row)]
          ELSE d[i]]
  ELSE Append(d, [name |-> name, rows |-> <<row>>])

RECURSIVE GroupInto(_, _)
GroupInto(d, rows) ==
  IF rows = <<>> THEN [ok |-> TRUE, groups |-> d]
  ELSE LET n == DecodeIfBytes(Head(rows).key_name) IN
       IF ~n.ok THEN [ok |-> FALSE, groups |-> <<>>]
       ELSE GroupInto(DictAppend(d, n.val, Head(rows)), Tail(rows))

IndexGroups(rows) == GroupInto(<<>>, rows)

(* variant: the flag is read from the last row of the group *)
IsUniqueLast(index_columns) ==
  IF index_columns[Len(index_columns)].non_unique = 0 THEN TxtUnique ELSE TxtEmpty

(* "UNIQUE" if not bool(index_columns[0][1]) else "" *)
IsUnique(index_columns) ==
  IF index_columns[1].non_unique = 0 THEN TxtUnique ELSE TxtEmpty

(* the inner loop that fills the list `columns` of one group *)
RECURSIVE IndexColumns(_)
IndexColumns(index_columns) ==
  IF index_columns = <<>> THEN [ok |-> TRUE, cols |-> <<>>]
  ELSE LET c == DecodeIfBytes(Head(index_columns).column_name) IN
       IF ~c.ok THEN [ok |-> FALSE, cols |-> <<>>]
       ELSE LET r == IndexColumns(Tail(index_columns)) IN
            [ok |-> r.ok, cols |-> IF r.ok THEN <<c.val>> \o r.cols ELSE <<>>]

(* ", ".join(columns) *)
RECURSIVE Join(_)
Join(cols) ==
  IF cols = <<>> THEN <<>>
  ELSE IF Len(cols) = 1 THEN cols[1]
  ELSE cols[1] \o TxtCommaSpace \o Join(Tail(cols))

(* the loop over index_groups.items(): lines written until the first      *)
(* failing group; cols is the last value bound to the local `columns`     *)
RECURSIVE IndexLines(_, _)
IndexLines(groups, cols) ==
  IF groups = <<>> THEN [ok |-> TRUE, lines |-> <<>>, cols |-> cols]
  ELSE LET g == Head(groups)
           c == IndexColumns(g.rows)
       IN IF ~c.ok THEN [ok |-> FALSE, lines |-> <<>>, cols |-> cols]
          ELSE LET r == IndexLines(Tail(groups), c.cols) IN
               [ok |-> r.ok,
                lines |-> <<Line("index", <<g.name, IsUnique(g.rows), Join(c.cols)>>)>>
                          \o r.lines,
                cols |-> r.cols]

(* str(err) of a mysql.connector.Error raised by a query *)
ErrText(kind) ==
  CASE kind = "describe" -> <<69, 49>>
    [] kind = "fks" -> <<69, 50>>
    [] kind = "show_index" -> <<69, 51>>
    [] kind = "show_create" -> <<69, 52>>
    [] OTHER -> <<69, 48>>

(* variant: the except clause writes no closing banner *)
ErrorBlockNoBanner(table, e) == <<Line("error", <<table, e>>)>>

(* the two writes of the except clause *)
ErrorBlock(table, e) == <<Line("error", <<table, e>>), BannerLine>>

(* ---------------- the catalog the server holds ---------------- *)
Reps == {"str", "bytes"}
Rep(text, r) == IF r = "bytes" THEN Bytes(Utf8Encode(text)) ELSE Str(text)
BadBytes == Bytes(<<255>>)

SeqsUpTo(S, n) == UNION {[1..k -> S] : k \in 0..n}

(* "t1", "t2", ...: SHOW TABLES lists distinct names *)
NameText(i) == <<116, 48 + i>>
CreateText(i) == <<67, 84, 32>> \o NameText(i)

(* DESCRIBE rows: Field, Type, Null, Key, Default, Extra *)
LogicalColumns ==
  { [name |-> <<105, 100>>, type |-> <<105, 110, 116>>, null |-> TxtNO,
     key |-> <<80, 82, 73>>, hasDefault |-> FALSE, default |-> <<>>,
     extra |-> <<97, 117, 116, 111>>],
    [name |-> <<1080, 1084, 1103>>, type |-> <<116, 120, 116>>, null |-> TxtYES,
     key |-> <<>>, hasDefault |-> TRUE, default |-> <<48>>, extra |-> <<>>] }

ColumnRow(c, r) ==
  <<Rep(c.name, r[1]), Rep(c.type, r[2]), Rep(c.null, r[3]), Rep(c.key, r[4]),
    IF c.hasDefault THEN Rep(c.default, r[5]) ELSE None, Rep(c.extra, r[6])>>

ColumnRows == {ColumnRow(c, r) : c \in LogicalColumns, r \in [1..6 -> Reps]}

AllRep(r) == [i \in 1..6 |-> r]
IdColumn == CHOOSE c \in LogicalColumns : ~c.hasDefault
NameColumn == CHOOSE c \in LogicalColumns : c.hasDefault

(* KEY_COLUMN_USAGE rows: column, constraint, referenced table and column *)
FkRow(r) ==
  <<Rep(<<111, 105, 100>>, r), Rep(<<102, 107>>, r), Rep(<<111, 103>>, r),
    Rep(<<105, 100>>, r)>>

(* SHOW INDEX rows: the fields the script reads (index[1], [2], [4]) *)
IndexRow(nu, name, col, r) ==
  [non_unique |-> nu, key_name |-> Rep(name, r), column_name |-> Rep(col, r)]

IndexNames == {<<97>>, <<1073>>}
IndexCols == {<<120>>, <<121>>}
(* "x" arrives as text and "y" as bytes, so a group mixes representations *)
IndexRows ==
  {IndexRow(nu, n, <<120>>, "str") : nu \in {0, 1}, n \in IndexNames}
  \cup {IndexRow(nu, n, <<121>>, "bytes") : nu \in {0, 1}, n \in IndexNames}

Table(name, cols, fks, idx, create) ==
  [name |-> name, columns |-> cols, fks |-> fks, indexes |-> idx, create |-> create]

(* tables as they occur in a schema of several tables *)
PlainTable(i, r) ==
  Table(Rep(NameText(i), r),
        <<ColumnRow(IF r = "str" THEN IdColumn ELSE NameColumn, AllRep(r))>>,
        IF r = "str" THEN <<FkRow(r)>> ELSE <<>>,
        IF r = "str"
        THEN <<IndexRow(0, <<97>>, <<120>>, r), IndexRow(0, <<97>>, <<121>>, r)>>
        ELSE <<IndexRow(1, <<1073>>, <<120>>, r)>>,
        Rep(CreateText(i), r))

BadColumnTable(i) ==
  Table(Str(NameText(i)),
        <<ColumnRow(IdColumn, AllRep("str")),
          <<BadBytes, Str(<<105, 110, 116>>), Str(TxtNO), Str(<<>>), None, Str(<<>>)>>>>,
        <<>>, <<>>, Str(CreateText(i)))

EmptyTable(i) == Table(Str(NameText(i)), <<>>, <<>>, <<>>, Str(CreateText(i)))

SchemaTables(i) ==
  {PlainTable(i, "str"), PlainTable(i, "bytes"), BadColumnTable(i), EmptyTable(i)}

Schemas ==
  UNION {{s \in [1..n -> UNION {SchemaTables(i) : i \in 1..n}] :
            \A i \in 1..n : s[i] \in SchemaTables(i)} : n \in 0..MaxTables}

(* a single table whose rows range over every representation *)
BaseTable == PlainTable(1, "str")

SingleTables ==
  {[BaseTable EXCEPT !.columns = c] : c \in SeqsUpTo(ColumnRows, MaxCols)}
  \cup {[BaseTable EXCEPT !.indexes = x] : x \in SeqsUpTo(IndexRows, MaxIdxRows)}
  \cup {[BaseTable EXCEPT !.fks = <<FkRow("bytes")>>],
        [BaseTable EXCEPT !.fks = <<FkRow("str"), [FkRow("str") EXCEPT ![3] = BadBytes]>>],
        [BaseTable EXCEPT !.indexes = <<[IndexRow(0, <<97>>, <<120>>, "str")
                                           EXCEPT !.key_name = BadBytes]>>],
        [BaseTable EXCEPT !.indexes = <<IndexRow(0, <<97>>, <<120>>, "str"),
                                        [IndexRow(1, <<1073>>, <<121>>, "str")
                                           EXCEPT !.column_name = BadBytes]>>],
        [BaseTable EXCEPT !.create = BadBytes],
        [BaseTable EXCEPT !.name = BadBytes]}

Catalogs == Schemas \cup {<<t>> : t \in SingleTables}

(* ---------------- state of the run ---------------- *)
VARIABLES
  catalog,        \* what the server holds, per table in SHOW TABLES order
  pc,             \* position of the script
  exc,            \* the exception that ended the run, "" if none
  cursorCloses,   \* cursor.close() calls
  connCloses,     \* conn.close() calls
  fileOpens,      \* open(output_file) calls that returned
  fileCloses,     \* releases of the file by the with statement
  tables_raw, tables, ti,
  columns, foreign_keys, indexes, create_result, err,
  doc,            \* the f.write calls so far
  queries         \* the cursor.execute calls so far

vars == <<catalog, pc, exc, cursorCloses, connCloses, fileOpens, fileCloses,
          tables_raw, tables, ti, columns, foreign_keys, indexes, create_result,
          err, doc, queries>>

session == <<cursorCloses, connCloses>>
file == <<fileOpens, fileCloses>>
locals == <<columns, foreign_keys, indexes, create_result, err>>

table == tables[ti]

Query(kind, t, ok) == [kind |-> kind, table |-> t, ok |-> ok]

Init ==
  /\ catalog \in Catalogs
  /\ pc = "show_tables"
  /\ exc = ""
  /\ cursorCloses = 0 /\ connCloses = 0
  /\ fileOpens = 0 /\ fileCloses = 0
  /\ tables_raw = <<>> /\ tables = <<>> /\ ti = 0
  /\ columns = <<>> /\ foreign_keys = <<>> /\ indexes = <<>>
  /\ create_result = None /\ err = <<>>
  /\ doc = <<>>
  /\ queries = <<>>

(* an exception nothing catches: the with statement, if entered, releases *)
(* the file, and the interpreter exits before lines 109-113               *)
Raise(e) ==
  /\ pc' = "aborted"
  /\ exc' = e
  /\ fileCloses' = IF fileOpens > fileCloses THEN fileCloses + 1 ELSE fileCloses
  /\ UNCHANGED <<fileOpens, session>>

(* ---------------- lines 13-22: enumeration ---------------- *)
(* cursor.execute("SHOW TABLES"); fetchall() *)
ShowTables ==
  /\ pc = "show_tables"
  /\ \E ok \in BOOLEAN :
       /\ queries' = Append(queries, Query("show_tables", 0, ok))
       /\ IF ok
          THEN /\ tables_raw' = [i \in 1..Len(catalog) |-> <<catalog[i].name>>]
               /\ pc' = "normalize"
               /\ UNCHANGED <<exc, file, session>>
          ELSE /\ Raise("mysql.connector.Error")
               /\ UNCHANGED tables_raw
  /\ UNCHANGED <<catalog, tables, ti, locals, doc>>

(* the loop that fills `tables` *)
RECURSIVE TableNames(_)
TableNames(rows) ==
  IF rows = <<>> THEN [ok |-> TRUE, names |-> <<>>]
  ELSE LET n == DecodeIfBytes(Head(rows)[1]) IN
       IF ~n.ok THEN [ok |-> FALSE, names |-> <<>>]
       ELSE LET r == TableNames(Tail(rows)) IN
            [ok |-> r.ok, names |-> IF r.ok THEN <<n.val>> \o r.names ELSE <<>>]

NormalizeTables ==
  /\ pc = "normalize"
  /\ LET r == TableNames(tables_raw) IN
       IF r.ok
       THEN /\ tables' = r.names
            /\ pc' = "open"
            /\ UNCHANGED <<exc, file, session>>
       ELSE /\ Raise("UnicodeDecodeError")
            /\ UNCHANGED tables
  /\ UNCHANGED <<catalog, tables_raw, ti, locals, doc, queries>>

(* ---------------- lines 26-28: the output file ---------------- *)
OpenFile ==
  /\ pc = "open"
  /\ \E ok \in BOOLEAN :
       IF ok
       THEN /\ fileOpens' = fileOpens + 1
            /\ pc' = "write_title"
            /\ UNCHANGED <<exc, fileCloses, session>>
       ELSE Raise("OSError")
  /\ UNCHANGED <<catalog, tables_raw, tables, ti, locals, doc, queries>>

WriteTitle ==
  /\ pc = "write_title"
  /\ doc' = doc \o <<TitleLine, BannerLine>>
  /\ pc' = "loop"
  /\ UNCHANGED <<catalog, exc, file, session, tables_raw, tables, ti, locals, queries>>

(* ---------------- lines 30-33: for table in tables ---------------- *)
BeginTable ==
  /\ pc = "loop"
  /\ ti < Len(tables)
  /\ ti' = ti + 1
  /\ doc' = doc \o <<HeaderLine(tables[ti + 1]), DashLine>>
  /\ pc' = "describe"
  /\ UNCHANGED <<catalog, exc, file, session, tables_raw, tables, locals, queries>>

(* the loop is exhausted: the with block ends and closes the file *)
ExitWith ==
  /\ pc = "loop"
  /\ ti = Len(tables)
  /\ fileCloses' = fileCloses + 1
  /\ pc' = "print"
  /\ UNCHANGED <<catalog, exc, fileOpens, session, tables_raw, tables, ti, locals,
                 doc, queries>>

(* variant: a failed DESCRIBE is swallowed and the body goes on *)
DescribeSwallow ==
  /\ pc = "describe"
  /\ \E ok \in BOOLEAN :
       /\ queries' = Append(queries, Query("describe", ti, ok))
       /\ columns' = IF ok THEN catalog[ti].columns ELSE <<>>
       /\ pc' = "write_columns"
       /\ UNCHANGED err
  /\ UNCHANGED <<catalog, exc, file, session, tables_raw, tables, ti, foreign_keys,
                 indexes, create_result, doc>>

(* ---------------- lines 36-50: columns ---------------- *)
Describe ==
  /\ pc = "describe"
  /\ \E ok \in BOOLEAN :
       /\ queries' = Append(queries, Query("describe", ti, ok))
       /\ IF ok
          THEN /\ columns' = catalog[ti].columns
               /\ pc' = "write_columns"
               /\ UNCHANGED err
          ELSE /\ err' = ErrText("describe")
               /\ pc' = "except"
               /\ UNCHANGED columns
  /\ UNCHANGED <<catalog, exc, file, session, tables_raw, tables, ti, foreign_keys,
                 indexes, create_result, doc>>

WriteColumns ==
  /\ pc = "write_columns"
  /\ LET r == ColumnLines(columns) IN
       /\ doc' = doc \o <<ColumnsHeading>> \o r.lines
                     \o (IF r.ok THEN <<BlankLine>> ELSE <<>>)
       /\ IF r.ok
          THEN pc' = "fks" /\ UNCHANGED <<exc, file, session>>
          ELSE Raise("UnicodeDecodeError")
  /\ UNCHANGED <<catalog, tables_raw, tables, ti, locals, queries>>

(* ---------------- lines 53-69: foreign keys ---------------- *)
ListForeignKeys ==
  /\ pc = "fks"
  /\ \E ok \in BOOLEAN :
       /\ queries' = Append(queries, Query("fks", ti, ok))
       /\ IF ok
          THEN /\ foreign_keys' = catalog[ti].fks
               /\ pc' = "write_fks"
               /\ UNCHANGED err
          ELSE /\ err' = ErrText("fks")
               /\ pc' = "except"
               /\ UNCHANGED foreign_keys
  /\ UNCHANGED <<catalog, exc, file, session, tables_raw, tables, ti, columns,
                 indexes, create_result, doc>>

WriteForeignKeys ==
  /\ pc = "write_fks"
  /\ IF foreign_keys = <<>>
     THEN /\ pc' = "show_index"
          /\ UNCHANGED <<doc, exc, file, session>>
     ELSE LET r == FkLines(foreign_keys, table) IN
            /\ doc' = doc \o <<FkHeading>> \o r.lines
                          \o (IF r.ok THEN <<BlankLine>> ELSE <<>>)
            /\ IF r.ok
               THEN pc' = "show_index" /\ UNCHANGED <<exc, file, session>>
               ELSE Raise("UnicodeDecodeError")
  /\ UNCHANGED <<catalog, tables_raw, tables, ti, locals, queries>>

(* variant: a failed SHOW INDEX is issued again *)
ShowIndexRetry ==
  /\ pc = "show_index"
  /\ \E ok \in BOOLEAN :
       /\ queries' = Append(queries, Query("show_index", ti, ok))
       /\ IF ok
          THEN /\ indexes' = catalog[ti].indexes
               /\ pc' = "write_indexes"
          ELSE /\ Len(queries) < 12
               /\ pc' = "show_index"
               /\ UNCHANGED indexes
  /\ UNCHANGED <<catalog, exc, file, session, tables_raw, tables, ti, columns,
                 foreign_keys, create_result, err, doc>>

(* ---------------- lines 72-94: indexes ---------------- *)
ShowIndex ==
  /\ pc = "show_index"
  /\ \E ok \in BOOLEAN :
       /\ queries' = Append(queries, Query("show_index", ti, ok))
       /\ IF ok
          THEN /\ indexes' = catalog[ti].indexes
               /\ pc' = "write_indexes"
               /\ UNCHANGED err
          ELSE /\ err' = ErrText("show_index")
               /\ pc' = "except"
               /\ UNCHANGED indexes
  /\ UNCHANGED <<catalog, exc, file, session, tables_raw, tables, ti, columns,
                 foreign_keys, create_result, doc>>

WriteIndexes ==
  /\ pc = "write_indexes"
  /\ IF indexes = <<>>
     THEN /\ pc' = "show_create"
          /\ UNCHANGED <<doc, columns, exc, file, session>>
     ELSE LET g == IndexGroups(indexes) IN
            IF ~g.ok
            THEN /\ Raise("UnicodeDecodeError")
                 /\ UNCHANGED <<doc, columns>>
            ELSE LET r == IndexLines(g.groups, columns) IN
                   /\ doc' = doc \o <<IndexHeading>> \o r.lines
                                 \o (IF r.ok THEN <<BlankLine>> ELSE <<>>)
                   /\ columns' = r.cols
                   /\ IF r.ok
                      THEN pc' = "show_create" /\ UNCHANGED <<exc, file, session>>
                      ELSE Raise("UnicodeDecodeError")
  /\ UNCHANGED <<catalog, tables_raw, tables, ti, foreign_keys, indexes,
                 create_result, err, queries>>

(* ---------------- lines 97-103: creation statement ---------------- *)
ShowCreate ==
  /\ pc = "show_create"
  /\ \E ok \in BOOLEAN :
       /\ queries' = Append(queries, Query("show_create", ti, ok))
       /\ IF ok
          THEN /\ create_result' = catalog[ti].create
               /\ pc' = "write_create"
               /\ UNCHANGED err
          ELSE /\ err' = ErrText("show_create")
               /\ pc' = "except"
               /\ UNCHANGED create_result
  /\ UNCHANGED <<catalog, exc, file, session, tables_raw, tables, ti, columns,
                 foreign_keys, indexes, doc>>

WriteCreate ==
  /\ pc = "write_create"
  /\ LET c == DecodeIfBytes(create_result) IN
       IF c.ok
       THEN /\ doc' = doc \o <<CreateHeading, Line("create", <<c.val>>), BannerLine>>
            /\ pc' = "loop"
            /\ UNCHANGED <<exc, file, session>>
       ELSE /\ Raise("UnicodeDecodeError")
            /\ UNCHANGED doc
  /\ UNCHANGED <<catalog, tables_raw, tables, ti, locals, queries>>

(* variant: the except clause ends with break instead of continue *)
HandleErrorBreak ==
  /\ pc = "except"
  /\ doc' = doc \o ErrorBlock(tables[ti], err)
  /\ ti' = Len(tables)
  /\ pc' = "loop"
  /\ UNCHANGED <<catalog, exc, file, session, tables_raw, tables, locals, queries>>

(* ---------------- lines 104-107: except mysql.connector.Error ---------- *)
HandleError ==
  /\ pc = "except"
  /\ doc' = doc \o ErrorBlock(table, err)
  /\ pc' = "loop"
  /\ UNCHANGED <<catalog, exc, file, session, tables_raw, tables, ti, locals, queries>>

(* an f.write of the next statement fails: OSError is not caught *)
WritePending ==
  \/ pc \in {"write_title", "write_columns", "write_create", "except"}
  \/ pc = "loop" /\ ti < Len(tables)
  \/ pc = "write_fks" /\ foreign_keys # <<>>
  \/ pc = "write_indexes" /\ indexes # <<>> /\ IndexGroups(indexes).ok

WriteFails ==
  /\ WritePending
  /\ Raise("OSError")
  /\ UNCHANGED <<catalog, tables_raw, tables, ti, locals, doc, queries>>

(* ---------------- lines 109-113: epilogue ---------------- *)
PrintDone ==
  /\ pc = "print"
  /\ pc' = "close_cursor"
  /\ UNCHANGED <<catalog, exc, file, session, tables_raw, tables, ti, locals, doc,
                 queries>>

CloseCursor ==
  /\ pc = "close_cursor"
  /\ cursorCloses' = cursorCloses + 1
  /\ pc' = "close_conn"
  /\ UNCHANGED <<catalog, exc, file, connCloses, tables_raw, tables, ti, locals, doc,
                 queries>>

CloseConn ==
  /\ pc = "close_conn"
  /\ connCloses' = connCloses + 1
  /\ pc' = "done"
  /\ UNCHANGED <<catalog, exc, file, cursorCloses, tables_raw, tables, ti, locals, doc,
                 queries>>

Next ==
  \/ ShowTables \/ NormalizeTables \/ OpenFile \/ WriteTitle
  \/ BeginTable \/ ExitWith
  \/ Describe \/ WriteColumns
  \/ ListForeignKeys \/ WriteForeignKeys
  \/ ShowIndex \/ WriteIndexes
  \/ ShowCreate \/ WriteCreate
  \/ HandleError \/ WriteFails
  \/ PrintDone \/ CloseCursor \/ CloseConn

Spec == Init /\ [][Next]_vars

(* ======================================================================= *)
(* Properties                                                              *)
(* ======================================================================= *)
FinishedPcs == {"print", "close_cursor", "close_conn", "done"}
Finished == pc \in FinishedPcs

(* the cell carries the text s, as text or as its UTF-8 encoding *)
CellIs(cell, s) == cell = Str(s) \/ cell = Bytes(Utf8Encode(s))

Tagged(b, tag) == SelectSeq(b, LAMBDA l : l.tag = tag)
DataTags == {"columns_heading", "column", "fk_heading", "fk", "index_heading",
             "index", "create_heading", "create"}
DataLines(b) == SelectSeq(b, LAMBDA l : l.tag \in DataTags)

(* the block of the i-th table: from its header up to the next header *)
HeaderPos == {p \in 1..Len(doc) : doc[p].tag = "header"}
NthHeader(i) == CHOOSE p \in HeaderPos : Cardinality({q \in HeaderPos : q < p}) = i - 1
Block(i) ==
  IF i < 1 \/ i > Cardinality(HeaderPos) THEN <<>>
  ELSE SubSeq(doc, NthHeader(i),
              IF i = Cardinality(HeaderPos) THEN Len(doc) ELSE NthHeader(i + 1) - 1)

(* the loop body has ended for the i-th table *)
Completed(i) == i >= 1 /\ (i < ti \/ (i = ti /\ (pc = "loop" \/ Finished)))
Failed(i) == \E j \in 1..Len(queries) : queries[j].table = i /\ ~queries[j].ok
FailedAt(i, kind) ==
  \E j \in 1..Len(queries) :
     queries[j].table = i /\ queries[j].kind = kind /\ ~queries[j].ok
NamesTable(l, i) == l.tag = "error" /\ l.args[1] = tables[i]

(* C1: when the run finishes (enumeration succeeded, every failure was a   *)
(* query error), the headers of the document are the enumerated table      *)
(* names, one per table and in enumeration order, and a table has an error *)
(* line in its block exactly when one of its queries failed                *)
C1_OneBlockPerTable ==
  Finished =>
    /\ Len(Tagged(doc, "header")) = Len(catalog)
    /\ [i \in 1..Len(Tagged(doc, "header")) |-> Tagged(doc, "header")[i].args[1]] = tables
    /\ \A i \in 1..Len(catalog) :
         /\ CellIs(catalog[i].name, Block(i)[1].args[1])
         /\ Len(Tagged(Block(i), "error")) = (IF Failed(i) THEN 1 ELSE 0)
         /\ \A k \in 1..Len(Block(i)) :
              Block(i)[k].tag = "error" => NamesTable(Block(i)[k], i)

C1_Witness ==
  /\ Finished /\ Len(tables) = 2
  /\ FailedAt(1, "show_index") /\ ~Failed(2)
  /\ Len(Tagged(doc, "header")) = 2

(* C2 as stated: a table with a failed query has an error block naming it  *)
(* and no data section at all                                              *)
C2_NoDataSectionOnFailure ==
  \A i \in 1..Len(tables) :
    (Completed(i) /\ Failed(i)) =>
       /\ \E k \in 1..Len(Block(i)) : NamesTable(Block(i)[k], i)
       /\ DataLines(Block(i)) = <<>>

(* the block the i-th table gets from its own name, its own rows and the   *)
(* outcome of its own queries                                              *)
OwnSections(i) ==
  IF FailedAt(i, "describe") THEN ErrorBlock(tables[i], ErrText("describe"))
  ELSE <<ColumnsHeading>> \o ColumnLines(catalog[i].columns).lines \o <<BlankLine>> \o
   (IF FailedAt(i, "fks") THEN ErrorBlock(tables[i], ErrText("fks"))
    ELSE (IF catalog[i].fks = <<>> THEN <<>>
          ELSE <<FkHeading>> \o FkLines(catalog[i].fks, tables[i]).lines
               \o <<BlankLine>>) \o
     (IF FailedAt(i, "show_index") THEN ErrorBlock(tables[i], ErrText("show_index"))
      ELSE (IF catalog[i].indexes = <<>> THEN <<>>
            ELSE <<IndexHeading>>
                 \o IndexLines(IndexGroups(catalog[i].indexes).groups, <<>>).lines
                 \o <<BlankLine>>) \o
       (IF FailedAt(i, "show_create")
        THEN ErrorBlock(tables[i], ErrText("show_create"))
        ELSE <<CreateHeading,
               Line("create", <<DecodeIfBytes(catalog[i].create).val>>),
               BannerLine>>)))
OwnBlock(i) == <<HeaderLine(tables[i]), DashLine>> \o OwnSections(i)

(* C3: a table whose DESCRIBE failed has exactly one error line, naming    *)
(* it, and no data-section line; the block of every table is the one its   *)
(* own name, rows and query outcomes give, whatever happened to the others *)
C3_DescribeFailureIsolated ==
  \A i \in 1..Len(tables) :
    Completed(i) =>
      /\ FailedAt(i, "describe") =>
           /\ Len(Tagged(Block(i), "error")) = 1
           /\ NamesTable(Tagged(Block(i), "error")[1], i)
           /\ DataLines(Block(i)) = <<>>
      /\ Block(i) = OwnBlock(i)

C3_Witness ==
  /\ Finished /\ Len(tables) = 2
  /\ FailedAt(1, "describe") /\ ~Failed(2)
  /\ Len(Tagged(Block(2), "column")) = 1
  /\ Len(Tagged(Block(2), "index")) = 1

(* C4 as stated: a decoding failure while a table is processed never ends  *)
(* the run; the table gets an error block and the run goes on              *)
C4_DecodeFailureIsTableLevel ==
  (exc = "UnicodeDecodeError" /\ ti >= 1) =>
     /\ pc # "aborted"
     /\ \E k \in 1..Len(Block(ti)) : NamesTable(Block(ti)[k], ti)

(* C5 as stated: every run that has ended has closed the cursor and the    *)
(* connection once each and has released the file once if it opened it     *)
C5_ReleasedExactlyOnce ==
  pc \in {"done", "aborted"} =>
     /\ cursorCloses = 1 /\ connCloses = 1
     /\ fileCloses = fileOpens

(* the text a well-formed cell carries, among the texts of u *)
TextOf(cell, u) == CHOOSE t \in u : CellIs(cell, t)
DescribeOk(i) == \E j \in 1..Len(queries) : queries[j] = Query("describe", i, TRUE)
IndexListed(i) == \E j \in 1..Len(queries) : queries[j] = Query("show_index", i, TRUE)

(* C6 as stated: every rendered cell is written as the text S it carries,  *)
(* whether it arrived as S or as the bytes of S                            *)
C6_RenderingIgnoresRepresentation ==
  \A i \in 1..Len(tables) :
    (Completed(i) /\ ~Failed(i)) =>
      LET b == Block(i)
          cl == Tagged(b, "column")
          fl == Tagged(b, "fk")
          il == Tagged(b, "index")
          rows == catalog[i].columns
          fks == catalog[i].fks
          idx == catalog[i].indexes
      IN /\ CellIs(catalog[i].name, b[1].args[1])
         /\ Len(cl) = Len(rows)
         /\ \A k \in 1..Len(cl) :
              /\ CellIs(rows[k][1], cl[k].args[1])
              /\ CellIs(rows[k][2], cl[k].args[2])
              /\ CellIs(rows[k][4], cl[k].args[4])
              /\ IF rows[k][5] = None THEN cl[k].args[5] = <<>>
                 ELSE /\ Len(cl[k].args[5]) >= Len(TxtDefaultPrefix)
                      /\ CellIs(rows[k][5],
                                SubSeq(cl[k].args[5], Len(TxtDefaultPrefix) + 1,
                                       Len(cl[k].args[5])))
              /\ CellIs(rows[k][6], cl[k].args[6])
         /\ Len(fl) = Len(fks)
         /\ \A k \in 1..Len(fl) :
              /\ CellIs(fks[k][1], fl[k].args[3])
              /\ CellIs(fks[k][2], fl[k].args[1])
              /\ CellIs(fks[k][3], fl[k].args[4])
              /\ CellIs(fks[k][4], fl[k].args[5])
         /\ \A k \in 1..Len(idx) :
              \E j \in 1..Len(il) : CellIs(idx[k].key_name, il[j].args[1])
         /\ \A j \in 1..Len(il) :
              LET g == SelectSeq(idx, LAMBDA r : CellIs(r.key_name, il[j].args[1])) IN
              il[j].args[3] = Join([k \in 1..Len(g) |-> TextOf(g[k].column_name, IndexCols)])
         /\ CellIs(catalog[i].create, Tagged(b, "create")[1].args[1])

(* C7 as stated: the column line says NOT NULL exactly when the Null cell  *)
(* carries "NO", as text or as bytes, and NULL otherwise                   *)
C7_NotNullToken ==
  \A i \in 1..Len(tables) :
    (Completed(i) /\ DescribeOk(i)) =>
      LET cl == Tagged(Block(i), "column")
          rows == catalog[i].columns
      IN /\ Len(cl) = Len(rows)
         /\ \A k \in 1..Len(cl) :
              cl[k].args[3] = (IF CellIs(rows[k][3], TxtNO) THEN TxtNotNull ELSE TxtNull)

(* C8: the index rows of a table give one line per distinct index name,    *)
(* in order of first occurrence; the line lists the columns of the rows of *)
(* its group in input order and says UNIQUE exactly when the non-unique    *)
(* flag of the first row of the group is 0                                 *)
C8_IndexGrouping ==
  \A i \in 1..Len(tables) :
    (Completed(i) /\ IndexListed(i)) =>
      LET rows == catalog[i].indexes
          il == Tagged(Block(i), "index")
          name(j) == TextOf(rows[j].key_name, IndexNames)
          first == {j \in 1..Len(rows) : \A h \in 1..(j - 1) : name(h) # name(j)}
          group(n) == SelectSeq(rows, LAMBDA r : CellIs(r.key_name, n))
          cols(n) == [k \in 1..Len(group(n)) |->
                        TextOf(group(n)[k].column_name, IndexCols)]
      IN /\ Len(il) = Cardinality({name(j) : j \in 1..Len(rows)})
         /\ Len(Tagged(Block(i), "index_heading")) = (IF rows = <<>> THEN 0 ELSE 1)
         /\ \A j \in first :
              LET k == Cardinality({h \in first : h <= j}) IN
              /\ k <= Len(il)
              /\ il[k].args[1] = name(j)
              /\ il[k].args[2] = (IF rows[j].non_unique = 0 THEN TxtUnique ELSE TxtEmpty)
              /\ il[k].args[3] = Join(cols(name(j)))

C8_Witness ==
  /\ Completed(1) /\ IndexListed(1)
  /\ Len(catalog[1].indexes) = 3
  /\ Len(Tagged(Block(1), "index")) = 2
  /\ catalog[1].indexes[1].non_unique = 0
  /\ catalog[1].indexes[3].non_unique = 1
  /\ CellIs(catalog[1].indexes[1].key_name, Tagged(Block(1), "index")[1].args[1])
  /\ CellIs(catalog[1].indexes[3].key_name, Tagged(Block(1), "index")[1].args[1])
  /\ catalog[1].indexes[1].key_name # catalog[1].indexes[3].key_name

(* C9: at the head of the loop, after k tables, the document holds k + 1   *)
(* banner lines: the one after the title and one closing each table block, *)
(* failed or not; with no table the document is the title and that banner  *)
C9_Banners ==
  /\ pc = "loop" =>
       /\ Len(Tagged(doc, "banner")) = ti + 1
       /\ doc[1] = TitleLine /\ doc[2] = BannerLine
       /\ \A i \in 1..ti :
            /\ Len(Tagged(Block(i), "banner")) = 1
            /\ Block(i)[Len(Block(i))] = BannerLine
  /\ (Finished /\ Len(catalog) = 0) => doc = <<TitleLine, BannerLine>>

C9_Witness ==
  /\ pc = "loop" /\ ti = 2
  /\ ~Failed(1) /\ FailedAt(2, "show_create")
  /\ Len(Tagged(doc, "banner")) = 3

KindRank(kind) ==
  CASE kind = "describe" -> 1
    [] kind = "fks" -> 2
    [] kind = "show_index" -> 3
    [] kind = "show_create" -> 4
    [] OTHER -> 0

(* C10: after SHOW TABLES the queries of a table come in the order         *)
(* DESCRIBE, foreign keys, SHOW INDEX, SHOW CREATE TABLE, each following   *)
(* a success of the one before; after a failure or after SHOW CREATE TABLE *)
(* the next query is the DESCRIBE of the next table; no query is repeated  *)
C10_QueryOrder ==
  /\ \A j \in 1..Len(queries) : (queries[j].kind = "show_tables") = (j = 1)
  /\ Len(queries) >= 2 => (queries[2].kind = "describe" /\ queries[2].table = 1)
  /\ \A j \in 3..Len(queries) :
       LET q == queries[j]
           p == queries[j - 1]
       IN \/ /\ q.table = p.table
             /\ p.ok
             /\ KindRank(q.kind) = KindRank(p.kind) + 1
          \/ /\ q.table = p.table + 1
             /\ q.kind = "describe"
             /\ (~p.ok \/ p.kind = "show_create")
  /\ \A j, k \in 1..Len(queries) :
       (queries[j].kind = queries[k].kind /\ queries[j].table = queries[k].table)
         => j = k

C10_Witness ==
  /\ Len(queries) >= 4
  /\ FailedAt(1, "fks")
  /\ queries[Len(queries)] = Query("show_create", 2, TRUE)
====
